---- MODULE Spec2Model ----
(***************************************************************************)
(* Model of the news-credibility backend: the text normalizer              *)
(* (backend/preprocessing.py), the content extractor (backend/scrapper.py) *)
(* and the /predict handler (backend/app.py).                              *)
(*                                                                         *)
(* A Python str is a sequence of one-character strings.  A Python value    *)
(* that may be a non-string is a record [kind, s]: kind "str" carries the  *)
(* string in s; kind "none" is None; kind "int" is a non-zero integer      *)
(* (truthy, not a string).                                                 *)
(***************************************************************************)
EXTENDS Integers, Sequences, FiniteSets, TLC

VARIABLES
    \* ---- /predict handler (app.py predict_news)
    pc,             \* position of the handler
    request,        \* NewsRequest: [text, url]
    user_text,      \* app.py:67
    user_url,       \* app.py:68
    outcome,        \* what the network and the parser do for this request
    extracted_text, \* app.py:74
    raw_text,       \* app.py:82 / 86
    source,         \* app.py:83 / 87
    cleaned_text,   \* app.py:107
    prediction,     \* app.py:124
    confidence,     \* app.py:126, in units of 1/100000
    responses,      \* the HTTP responses sent for the request, in order
    calls,          \* the collaborators invoked for the request, in order
    \* ---- normalizer harness (preprocessing.py)
    nPc, nIn, nOut, nOut2,
    \* ---- extractor harness (scrapper.py)
    xPc, xUrl, xNet, xRes

gatewayVars == <<pc, request, user_text, user_url, outcome, extracted_text, raw_text,
                 source, cleaned_text, prediction, confidence, responses, calls>>
normVars    == <<nPc, nIn, nOut, nOut2>>
extractVars == <<xPc, xUrl, xNet, xRes>>
vars        == <<gatewayVars, normVars, extractVars>>

(***************************************************************************)
(* Bounds of the model.                                                    *)
(***************************************************************************)
MaxPieces == 3      \* normalizer inputs are built from at most this many pieces
MaxExtra  == 1      \* lengths explored above a threshold
MaxClass  == 2      \* largest class code the classifier stub may return

(***************************************************************************)
(* Program constants.                                                      *)
(***************************************************************************)
MIN_LENGTH     == 20    \* validate_input_text(text, min_length=20)
MIN_EXTRACTED  == 50    \* scrapper.py: len(full_text) < 50
HTTP_OK        == 200   \* scrapper.py: response.status_code != 200
HTTP_BAD_REQUEST == 400 \* app.py: HTTPException(status_code=400)

(***************************************************************************)
(* Characters and Python string primitives.                                *)
(***************************************************************************)
LowerLetters == <<"a","b","c","d","e","f","g","h","i","j","k","l","m",
                  "n","o","p","q","r","s","t","u","v","w","x","y","z">>
UpperLetters == <<"A","B","C","D","E","F","G","H","I","J","K","L","M",
                  "N","O","P","Q","R","S","T","U","V","W","X","Y","Z">>

Range(f) == {f[i] : i \in DOMAIN f}

\* \s of the re module and the whitespace of str.strip()/str.split()
IsSpace(c) == c \in {" ", "\t", "\n", "\r"}

\* [a-zA-Z]
IsAsciiLetter(c) == c \in Range(LowerLetters) \cup Range(UpperLetters)

\* str.lower() on one character
LowerChar(c) ==
    IF c \in Range(UpperLetters)
    THEN LowerLetters[CHOOSE i \in DOMAIN UpperLetters : UpperLetters[i] = c]
    ELSE c

\* str.lower()
Lower(s) == [i \in 1..Len(s) |-> LowerChar(s[i])]

\* number of whitespace characters at the start of s, from position i
RECURSIVE LeadingSpaces(_, _)
LeadingSpaces(s, i) ==
    IF i > Len(s) \/ ~IsSpace(s[i]) THEN 0
    ELSE 1 + LeadingSpaces(s, i + 1)

\* number of whitespace characters at the end of s, back from position i
RECURSIVE TrailingSpaces(_, _)
TrailingSpaces(s, i) ==
    IF i < 1 \/ ~IsSpace(s[i]) THEN 0
    ELSE 1 + TrailingSpaces(s, i - 1)

\* str.strip()
Strip(s) ==
    LET lead == LeadingSpaces(s, 1)
    IN  IF lead = Len(s) THEN <<>>
        ELSE SubSeq(s, lead + 1, Len(s) - TrailingSpaces(s, Len(s)))

\* text[i:].startswith(p)
StartsWithAt(text, i, p) ==
    /\ i + Len(p) - 1 <= Len(text)
    /\ \A k \in 1..Len(p) : text[i + k - 1] = p[k]

\* number of characters matched by \S* from position i
RECURSIVE NonSpaceRun(_, _)
NonSpaceRun(text, i) ==
    IF i > Len(text) \/ IsSpace(text[i]) THEN 0
    ELSE 1 + NonSpaceRun(text, i + 1)

\* str.split(): the maximal runs of non-whitespace characters
RECURSIVE SplitFrom(_, _)
SplitFrom(text, i) ==
    IF i > Len(text) THEN <<>>
    ELSE IF IsSpace(text[i]) THEN SplitFrom(text, i + 1)
    ELSE LET n == NonSpaceRun(text, i)
         IN  <<SubSeq(text, i, i + n - 1)>> \o SplitFrom(text, i + n)

Split(text) == SplitFrom(text, 1)

\* " ".join(words)
RECURSIVE JoinSpace(_)
JoinSpace(words) ==
    IF Len(words) = 0 THEN <<>>
    ELSE IF Len(words) = 1 THEN words[1]
    ELSE words[1] \o <<" ">> \o JoinSpace(Tail(words))

(***************************************************************************)
(* Python values.                                                          *)
(***************************************************************************)
Str(s)   == [kind |-> "str", s |-> s]
PyNone   == [kind |-> "none", s |-> <<>>]
PyInt    == [kind |-> "int", s |-> <<>>]

IsStr(v)  == v.kind = "str"                       \* isinstance(v, str)
Truthy(v) == IF v.kind = "str" THEN v.s # <<>>    \* bool(v)
             ELSE v.kind = "int"

(***************************************************************************)
(* preprocessing.py                                                        *)
(***************************************************************************)
\* STOP_WORDS = set(stopwords.words("english")): the entries of the NLTK list
\* that the model's inputs can spell.
STOP_WORDS ==
    { <<"a">>, <<"i">>, <<"s">>, <<"t">>, <<"a","t">>, <<"h","e">>,
      <<"t","h","e">>, <<"t","h","a","t">>, <<"w","e">> }

UrlPrefixes == << <<"h","t","t","p">>, <<"w","w","w">>, <<"h","t","t","p","s">> >>

\* length of the match of  http\S+|www\S+|https\S+  at position i (0: no match);
\* the alternatives are tried in order and \S+ is greedy
UrlMatchLen(text, i) ==
    LET ok(k) == /\ StartsWithAt(text, i, UrlPrefixes[k])
                 /\ NonSpaceRun(text, i + Len(UrlPrefixes[k])) >= 1
    IN  IF \E k \in DOMAIN UrlPrefixes : ok(k)
        THEN LET k == CHOOSE k \in DOMAIN UrlPrefixes :
                          ok(k) /\ \A j \in 1..(k-1) : ~ok(j)
             IN  Len(UrlPrefixes[k]) + NonSpaceRun(text, i + Len(UrlPrefixes[k]))
        ELSE 0

\* re.sub(r"http\S+|www\S+|https\S+", " ", text)
RECURSIVE SubUrlsFrom(_, _)
SubUrlsFrom(text, i) ==
    IF i > Len(text) THEN <<>>
    ELSE LET m == UrlMatchLen(text, i)
         IN  IF m > 0 THEN <<" ">> \o SubUrlsFrom(text, i + m)
             ELSE <<text[i]>> \o SubUrlsFrom(text, i + 1)

SubUrls(text) == SubUrlsFrom(text, 1)

\* length of the match of  <.*?>  at position i (0: no match); "." does not
\* match a newline and .*? is lazy, so the match ends at the first ">" and
\* fails when a newline comes first
TagMatchLen(text, i) ==
    IF text[i] # "<" THEN 0
    ELSE LET stops == {j \in (i+1)..Len(text) : text[j] \in {">", "\n"}}
         IN  IF stops = {} THEN 0
             ELSE LET j == CHOOSE j \in stops : \A k \in stops : j <= k
                  IN  IF text[j] = ">" THEN j - i + 1 ELSE 0

\* re.sub(r"<.*?>", " ", text)
RECURSIVE SubTagsFrom(_, _)
SubTagsFrom(text, i) ==
    IF i > Len(text) THEN <<>>
    ELSE LET m == TagMatchLen(text, i)
         IN  IF m > 0 THEN <<" ">> \o SubTagsFrom(text, i + m)
             ELSE <<text[i]>> \o SubTagsFrom(text, i + 1)

SubTags(text) == SubTagsFrom(text, 1)

\* re.sub(r"[^a-zA-Z\s]", " ", text)
SubNonLetters(text) ==
    [i \in 1..Len(text) |->
        IF IsAsciiLetter(text[i]) \/ IsSpace(text[i]) THEN text[i] ELSE " "]

\* length of the run of whitespace from position i
RECURSIVE SpaceRun(_, _)
SpaceRun(text, i) ==
    IF i > Len(text) \/ ~IsSpace(text[i]) THEN 0
    ELSE 1 + SpaceRun(text, i + 1)

\* re.sub(r"\s+", " ", text)
RECURSIVE CollapseFrom(_, _)
CollapseFrom(text, i) ==
    IF i > Len(text) THEN <<>>
    ELSE LET m == SpaceRun(text, i)
         IN  IF m > 0 THEN <<" ">> \o CollapseFrom(text, i + m)
             ELSE <<text[i]>> \o CollapseFrom(text, i + 1)

CollapseSpaces(text) == CollapseFrom(text, 1)

\* basic_clean without the lowercasing step
basic_clean_no_lower(text) ==
    IF ~IsStr(text) THEN <<>>
    ELSE Strip(CollapseSpaces(SubNonLetters(SubTags(SubUrls(text.s)))))

\* basic_clean(text); the result is a str
basic_clean(text) ==
    IF ~IsStr(text) THEN <<>>
    ELSE Strip(CollapseSpaces(SubNonLetters(SubTags(SubUrls(Lower(text.s))))))

\* the filter with its condition inverted: [word for word in words if word in STOP_WORDS]
filtered_words_inverted(words) == SelectSeq(words, LAMBDA w : w \in STOP_WORDS)

\* [word for word in words if word not in STOP_WORDS]
filtered_words(words) == SelectSeq(words, LAMBDA w : w \notin STOP_WORDS)

\* remove_stopwords(text), text a str
remove_stopwords(text) ==
    IF text = <<>> THEN <<>>
    ELSE JoinSpace(filtered_words(Split(text)))

\* preprocess_text with its two steps in the wrong order
preprocess_text_swapped(text) ==
    IF ~Truthy(text) \/ ~IsStr(text) THEN <<>>
    ELSE basic_clean(Str(remove_stopwords(text.s)))

\* preprocess_text(text); the result is a str
preprocess_text(text) ==
    IF ~Truthy(text) \/ ~IsStr(text) THEN <<>>
    ELSE remove_stopwords(basic_clean(text))

\* the validator rejecting a text of exactly the minimum length
validate_input_text_off_by_one(text, min_length) ==
    IF ~Truthy(text) \/ ~IsStr(text) THEN FALSE
    ELSE IF Len(Strip(text.s)) <= min_length THEN FALSE
    ELSE TRUE

\* validate_input_text(text, min_length)
validate_input_text(text, min_length) ==
    IF ~Truthy(text) \/ ~IsStr(text) THEN FALSE
    ELSE IF Len(Strip(text.s)) < min_length THEN FALSE
    ELSE TRUE

(***************************************************************************)
(* Normalizer harness: preprocess_text applied to a bounded set of inputs, *)
(* then applied again to its own output.                                   *)
(***************************************************************************)
RECURSIVE Rep(_, _)
Rep(u, k) == IF k = 0 THEN <<>> ELSE u \o Rep(u, k - 1)

\* a run of digits as long as the validator's threshold
Padding == Rep(<<"1">>, MIN_LENGTH)

Pieces ==
    { <<"h","t","t","p">>, <<"w","w","w">>, <<"x">>, <<"T","h","e">>, <<"a">>,
      <<" ">>, <<"\n">>, <<"<">>, <<">">>, <<"1">>, Padding }

RECURSIVE Concats(_)
Concats(n) ==
    IF n = 0 THEN { <<>> }
    ELSE LET shorter == Concats(n - 1)
         IN  shorter \cup { s \o p : s \in shorter, p \in Pieces }

NormInputs == { Str(s) : s \in Concats(MaxPieces) } \cup { PyNone, PyInt }

NormInit ==
    /\ nPc = "input"
    /\ nIn \in NormInputs
    /\ nOut = <<>>
    /\ nOut2 = <<>>

\* cleaned = preprocess_text(text)
NormApply ==
    /\ nPc = "input"
    /\ nOut' = preprocess_text(nIn)
    /\ nPc' = "once"
    /\ UNCHANGED <<nIn, nOut2>>

\* preprocess_text(cleaned)
NormApplyAgain ==
    /\ nPc = "once"
    /\ nOut2' = preprocess_text(Str(nOut))
    /\ nPc' = "twice"
    /\ UNCHANGED <<nIn, nOut>>


(***************************************************************************)
(* scrapper.py                                                             *)
(*                                                                         *)
(* What the network and the article parser do is the environment's choice: *)
(*   get     "response", or the exception requests.get raises              *)
(*   status  response.status_code                                          *)
(*   parse   "ok", or the exception article.download()/parse() raises      *)
(*   title   article.title, text  article.text (a str or None)             *)
(***************************************************************************)
\* the first n characters of u repeated
Fill(u, n) == [i \in 1..n |-> u[((i - 1) % Len(u)) + 1]]

NoArticle == [get |-> "response", status |-> HTTP_OK, parse |-> "ok",
              title |-> PyNone, text |-> PyNone]

Titles == { PyNone, Str(<<>>), Str(<<"T">>), Str(<<" ","T","i"," ">>) }

BodyUnits == { <<"x">>, <<"a"," ">>, <<"1">>, <<"T","h","e"," ">> }

BodyLengths == {0} \cup ((MIN_EXTRACTED - 5)..(MIN_EXTRACTED + MaxExtra))

Bodies == { PyNone } \cup { Str(Fill(u, n)) : u \in BodyUnits, n \in BodyLengths }

NetOutcomes ==
    { [NoArticle EXCEPT !.get = e] : e \in {"ConnectionError", "Timeout"} }
    \cup { [NoArticle EXCEPT !.status = c] : c \in {404, 500} }
    \cup { [NoArticle EXCEPT !.parse = "ArticleException"] }
    \cup { [NoArticle EXCEPT !.title = t, !.text = b] : t \in Titles, b \in Bodies }

\* the body of the try block: [exc, value], exc the exception raised ("" if none)
TryExtract(url, env) ==
    IF env.get # "response" THEN [exc |-> env.get, value |-> <<>>]
    ELSE IF env.status # HTTP_OK THEN [exc |-> "", value |-> <<>>]
    ELSE IF env.parse # "ok" THEN [exc |-> env.parse, value |-> <<>>]
    ELSE LET title == IF Truthy(env.title) THEN env.title.s ELSE <<>>
             text  == IF Truthy(env.text) THEN env.text.s ELSE <<>>
             full_text == Strip(title \o <<" ">> \o text)
         IN  IF Len(full_text) < MIN_EXTRACTED
             THEN [exc |-> "", value |-> <<>>]
             ELSE [exc |-> "", value |-> full_text]

\* the handler catching the network errors only
extract_text_from_url_narrow(url, env) ==
    IF ~Truthy(url) \/ ~IsStr(url) THEN [raised |-> "", value |-> <<>>]
    ELSE LET r == TryExtract(url.s, env)
         IN  IF r.exc \in {"ConnectionError", "Timeout"}
             THEN [raised |-> "", value |-> <<>>]
             ELSE [raised |-> r.exc, value |-> r.value]

\* the extractor without its minimum-length check
extract_text_from_url_any_length(url, env) ==
    IF ~Truthy(url) \/ ~IsStr(url) THEN [raised |-> "", value |-> <<>>]
    ELSE IF env.get = "response" /\ env.status = HTTP_OK /\ env.parse = "ok"
    THEN [raised |-> "",
          value |-> Strip((IF Truthy(env.title) THEN env.title.s ELSE <<>>)
                          \o <<" ">> \o
                          (IF Truthy(env.text) THEN env.text.s ELSE <<>>))]
    ELSE [raised |-> "", value |-> <<>>]

\* extract_text_from_url(url): [raised, value], raised the exception that
\* leaves the function ("" if it returns), value the string returned
extract_text_from_url(url, env) ==
    IF ~Truthy(url) \/ ~IsStr(url) THEN [raised |-> "", value |-> <<>>]
    ELSE LET r == TryExtract(url.s, env)
         IN  IF r.exc # ""
             THEN [raised |-> "", value |-> <<>>]      \* except Exception
             ELSE [raised |-> "", value |-> r.value]

(***************************************************************************)
(* Extractor harness: extract_text_from_url applied to any url value under *)
(* any outcome of the network and the parser.                              *)
(***************************************************************************)
ExtractUrls == { PyNone, PyInt, Str(<<>>), Str(<<"u">>) }

NoResult == [raised |-> "", value |-> <<>>]

ExtractInit ==
    /\ xPc = "input"
    /\ xUrl \in ExtractUrls
    /\ xNet \in NetOutcomes
    /\ xRes = NoResult

\* result = extract_text_from_url(url)
ExtractApply ==
    /\ xPc = "input"
    /\ xRes' = extract_text_from_url(xUrl, xNet)
    /\ xPc' = "returned"
    /\ UNCHANGED <<xUrl, xNet>>

\* the caller's test of the result: if not extracted_text
ExtractCheck ==
    /\ xPc = "returned"
    /\ xPc' = IF xRes.raised # "" THEN "raised"
              ELSE IF xRes.value = <<>> THEN "failed" ELSE "extracted"
    /\ UNCHANGED <<xUrl, xNet, xRes>>

(***************************************************************************)
(* app.py: the /predict handler, one request from its arrival to its       *)
(* response.                                                               *)
(***************************************************************************)
DETAIL_EXTRACTION == "Unable to extract valid article content from the provided URL."
DETAIL_NO_INPUT   == "Please provide either news text or a valid URL."
DETAIL_TOO_SHORT  == "Input text is too short or invalid for analysis."
DETAIL_EMPTY      == "Text preprocessing resulted in empty content."
DETAIL_INTERNAL   == "Internal Server Error"

\* raise HTTPException(status_code=400, detail=...)
HTTPException(detail) ==
    [status_code |-> HTTP_BAD_REQUEST, detail |-> detail, prediction |-> "",
     confidence_score |-> 0, input_source |-> "", text_length |-> 0]

\* an exception nobody catches: the framework's generic server error
ServerError ==
    [status_code |-> 500, detail |-> DETAIL_INTERNAL, prediction |-> "",
     confidence_score |-> 0, input_source |-> "", text_length |-> 0]

\* the dict returned on success; confidence_score in hundredths of a percent
Success(label, score, src, length) ==
    [status_code |-> HTTP_OK, detail |-> "success", prediction |-> label,
     confidence_score |-> score, input_source |-> src, text_length |-> length]

\* the field taken as it came, without strip()
trimmed_not(field) == field

\* request.text.strip() if request.text else ""
trimmed(field) == IF field # <<>> THEN Strip(field) ELSE <<>>

\* the branches tried in the other order: text first, then url
select_source_text_first(text, url) ==
    IF text # <<>> THEN "text"
    ELSE IF url # <<>> THEN "url"
    ELSE "none"

\* the branch of  if user_url: ... elif user_text: ... else: ...
select_source(text, url) ==
    IF url # <<>> THEN "url"
    ELSE IF text # <<>> THEN "text"
    ELSE "none"

\* str(n) for an integer n
DecimalDigits == <<"0","1","2","3","4","5","6","7","8","9">>

RECURSIVE py_str_nat(_)
py_str_nat(n) ==
    IF n < 10 THEN DecimalDigits[n + 1]
    ELSE py_str_nat(n \div 10) \o DecimalDigits[(n % 10) + 1]

py_str(n) == IF n < 0 THEN "-" \o py_str_nat(-n) ELSE py_str_nat(n)

label_map == (0 :> "Fake News") @@ (1 :> "Real News")

\* the table read with its two labels exchanged
predicted_label_swapped(p) ==
    IF p = 0 THEN "Real News" ELSE IF p = 1 THEN "Fake News" ELSE py_str(p)

\* label_map.get(int(prediction), str(prediction))
predicted_label(p) ==
    IF p \in DOMAIN label_map THEN label_map[p] ELSE py_str(p)

\* round(confidence * 100, 2), confidence in units of 1/100000 and the result
\* in hundredths of a percent; ties go to the even neighbour
confidence_score(c) ==
    LET q == c \div 10
        r == c % 10
    IN  IF r > 5 \/ (r = 5 /\ q % 2 = 1) THEN q + 1 ELSE q

\* what the classifier stub may answer
ClassCodes    == (-1)..MaxClass
Probabilities == {50000, 87000, 99995}

\* the requests
TextUnits   == { <<"x">>, <<"T","h","e"," ">>, <<"1">>, <<"h","t","t","p","x"," ">> }
TextLengths == {0, 1} \cup ((MIN_LENGTH - 1)..(MIN_LENGTH + MaxExtra))
Margins     == { <<<<>>, <<>>>>, <<<<" ">>, <<"\n"," ">>>> }
RequestTexts == { m[1] \o Fill(u, n) \o m[2] :
                    u \in TextUnits, n \in TextLengths, m \in Margins }
RequestUrls  == { <<>>, <<" ">>, <<"u">>, <<" ","u","\n">> }

GatewayInit ==
    /\ pc = "start"
    /\ request \in [text : RequestTexts, url : RequestUrls]
    /\ user_text = <<>>
    /\ user_url = <<>>
    /\ outcome = NoArticle
    /\ extracted_text = <<>>
    /\ raw_text = <<>>
    /\ source = ""
    /\ cleaned_text = <<>>
    /\ prediction = 0
    /\ confidence = 0
    /\ responses = <<>>
    /\ calls = <<>>

\* app.py:67-68
TrimInput ==
    /\ pc = "start"
    /\ user_text' = trimmed(request.text)
    /\ user_url' = trimmed(request.url)
    /\ pc' = "select"
    /\ UNCHANGED <<request, outcome, extracted_text, raw_text, source, cleaned_text,
                   prediction, confidence, responses, calls>>

\* app.py:73-83: the url branch
SelectUrl ==
    /\ pc = "select"
    /\ select_source(user_text, user_url) = "url"
    /\ \E n \in NetOutcomes :
         LET res == extract_text_from_url(Str(user_url), n)
         IN  /\ outcome' = n
             /\ calls' = Append(calls, "extract_text_from_url")
             /\ IF res.raised # ""
                THEN /\ responses' = Append(responses, ServerError)
                     /\ pc' = "done"
                     /\ UNCHANGED <<extracted_text, raw_text, source>>
                ELSE /\ extracted_text' = res.value
                     /\ IF res.value = <<>>
                        THEN /\ responses' = Append(responses,
                                                    HTTPException(DETAIL_EXTRACTION))
                             /\ pc' = "done"
                             /\ UNCHANGED <<raw_text, source>>
                        ELSE /\ raw_text' = res.value
                             /\ source' = "url"
                             /\ pc' = "validate"
                             /\ UNCHANGED responses
    /\ UNCHANGED <<request, user_text, user_url, cleaned_text, prediction, confidence>>

\* app.py:85-87: the text branch
SelectText ==
    /\ pc = "select"
    /\ select_source(user_text, user_url) = "text"
    /\ raw_text' = user_text
    /\ source' = "text"
    /\ pc' = "validate"
    /\ UNCHANGED <<request, user_text, user_url, outcome, extracted_text, cleaned_text,
                   prediction, confidence, responses, calls>>

\* app.py:89-93: neither
RejectNoInput ==
    /\ pc = "select"
    /\ select_source(user_text, user_url) = "none"
    /\ responses' = Append(responses, HTTPException(DETAIL_NO_INPUT))
    /\ pc' = "done"
    /\ UNCHANGED <<request, user_text, user_url, outcome, extracted_text, raw_text,
                   source, cleaned_text, prediction, confidence, calls>>

\* app.py:98-102
Validate ==
    /\ pc = "validate"
    /\ IF ~validate_input_text(Str(raw_text), MIN_LENGTH)
       THEN /\ responses' = Append(responses, HTTPException(DETAIL_TOO_SHORT))
            /\ pc' = "done"
       ELSE /\ pc' = "preprocess"
            /\ UNCHANGED responses
    /\ UNCHANGED <<request, user_text, user_url, outcome, extracted_text, raw_text,
                   source, cleaned_text, prediction, confidence, calls>>

\* the normalization step without its test for an empty result
Preprocess_unchecked ==
    /\ pc = "preprocess"
    /\ cleaned_text' = preprocess_text(Str(raw_text))
    /\ pc' = "vectorize"
    /\ UNCHANGED <<request, user_text, user_url, outcome, extracted_text, raw_text,
                   source, prediction, confidence, responses, calls>>

\* app.py:107-113
Preprocess ==
    /\ pc = "preprocess"
    /\ cleaned_text' = preprocess_text(Str(raw_text))
    /\ IF cleaned_text' = <<>>
       THEN /\ responses' = Append(responses, HTTPException(DETAIL_EMPTY))
            /\ pc' = "done"
       ELSE /\ pc' = "vectorize"
            /\ UNCHANGED responses
    /\ UNCHANGED <<request, user_text, user_url, outcome, extracted_text, raw_text,
                   source, prediction, confidence, calls>>

\* app.py:119
Vectorize ==
    /\ pc = "vectorize"
    /\ calls' = Append(calls, "vectorizer.transform")
    /\ pc' = "predict"
    /\ UNCHANGED <<request, user_text, user_url, outcome, extracted_text, raw_text,
                   source, cleaned_text, prediction, confidence, responses>>

\* app.py:124-126
Predict ==
    /\ pc = "predict"
    /\ prediction' \in ClassCodes
    /\ confidence' \in Probabilities
    /\ calls' = calls \o <<"model.predict", "model.predict_proba">>
    /\ pc' = "respond"
    /\ UNCHANGED <<request, user_text, user_url, outcome, extracted_text, raw_text,
                   source, cleaned_text, responses>>

\* app.py:133-150
Respond ==
    /\ pc = "respond"
    /\ responses' = Append(responses,
                           Success(predicted_label(prediction),
                                   confidence_score(confidence),
                                   source, Len(raw_text)))
    /\ pc' = "done"
    /\ UNCHANGED <<request, user_text, user_url, outcome, extracted_text, raw_text,
                   source, cleaned_text, prediction, confidence, calls>>

GatewayNext ==
    \/ TrimInput /\ UNCHANGED <<normVars, extractVars>>
    \/ SelectUrl /\ UNCHANGED <<normVars, extractVars>>
    \/ SelectText /\ UNCHANGED <<normVars, extractVars>>
    \/ RejectNoInput /\ UNCHANGED <<normVars, extractVars>>
    \/ Validate /\ UNCHANGED <<normVars, extractVars>>
    \/ Preprocess /\ UNCHANGED <<normVars, extractVars>>
    \/ Vectorize /\ UNCHANGED <<normVars, extractVars>>
    \/ Predict /\ UNCHANGED <<normVars, extractVars>>
    \/ Respond /\ UNCHANGED <<normVars, extractVars>>

(***************************************************************************)
(* Specifications.  Each one runs one component; the variables of the      *)
(* other components stay at rest.                                          *)
(***************************************************************************)
GatewayAtRest ==
    /\ pc = "rest"
    /\ request = [text |-> <<>>, url |-> <<>>]
    /\ user_text = <<>>
    /\ user_url = <<>>
    /\ outcome = NoArticle
    /\ extracted_text = <<>>
    /\ raw_text = <<>>
    /\ source = ""
    /\ cleaned_text = <<>>
    /\ prediction = 0
    /\ confidence = 0
    /\ responses = <<>>
    /\ calls = <<>>

NormAtRest ==
    /\ nPc = "rest"
    /\ nIn = PyNone
    /\ nOut = <<>>
    /\ nOut2 = <<>>

ExtractAtRest ==
    /\ xPc = "rest"
    /\ xUrl = PyNone
    /\ xNet = NoArticle
    /\ xRes = NoResult

NormNext ==
    \/ NormApply /\ UNCHANGED <<gatewayVars, extractVars>>
    \/ NormApplyAgain /\ UNCHANGED <<gatewayVars, extractVars>>

ExtractNext ==
    \/ ExtractApply /\ UNCHANGED <<gatewayVars, normVars>>
    \/ ExtractCheck /\ UNCHANGED <<gatewayVars, normVars>>

Init == GatewayInit /\ NormAtRest /\ ExtractAtRest

Next == GatewayNext

Spec == Init /\ [][Next]_vars

InitExtract == ExtractInit /\ GatewayAtRest /\ NormAtRest

SpecExtract == InitExtract /\ [][ExtractNext]_vars

InitNorm == NormInit /\ GatewayAtRest /\ ExtractAtRest

SpecNorm == InitNorm /\ [][NormNext]_vars


(***************************************************************************)
(* Properties of the normalizer.                                           *)
(***************************************************************************)
\* length of the run of ASCII letters of s that starts at position i
RECURSIVE LetterRunLen(_, _)
LetterRunLen(s, i) ==
    IF i > Len(s) \/ ~IsAsciiLetter(s[i]) THEN 0
    ELSE 1 + LetterRunLen(s, i + 1)

\* the maximal runs of ASCII letters of s
LetterRuns(s) ==
    { SubSeq(s, i, i + LetterRunLen(s, i) - 1) :
        i \in { k \in 1..Len(s) :
                  /\ IsAsciiLetter(s[k])
                  /\ (k = 1 \/ ~IsAsciiLetter(s[k - 1])) } }

\* length of the run of characters other than " " of s that starts at position i
RECURSIVE WordLen(_, _)
WordLen(s, i) ==
    IF i > Len(s) \/ s[i] = " " THEN 0
    ELSE 1 + WordLen(s, i + 1)

\* the maximal runs of characters other than " " of s
Words(s) ==
    { SubSeq(s, i, i + WordLen(s, i) - 1) :
        i \in { k \in 1..Len(s) :
                  /\ s[k] # " "
                  /\ (k = 1 \/ s[k - 1] = " ") } }

Contains(s, p) == \E i \in 1..Len(s) : StartsWithAt(s, i, p)

\* CleanedText of the data model: lowercase letters separated by single spaces,
\* no stopword among the words
IsCleanedText(s) ==
    /\ \A i \in 1..Len(s) : s[i] \in Range(LowerLetters) \cup {" "}
    /\ s # <<>> => (s[1] # " " /\ s[Len(s)] # " ")
    /\ \A i \in 1..(Len(s) - 1) : ~(s[i] = " " /\ s[i + 1] = " ")
    /\ \A w \in Words(s) : w \notin STOP_WORDS

\* the input is made of stopwords and non-letters only
OnlyStopwordsAndNonLetters(s) == \A r \in LetterRuns(s) : Lower(r) \in STOP_WORDS

NormApplied == nPc \in {"once", "twice"}

\* C5: normalizing the output of preprocess_text again changes nothing:
\* preprocess_text(preprocess_text(s)) = preprocess_text(s) for every input s.
Thm_C5_Idempotent == nPc = "twice" => nOut2 = nOut

\* an input that the first pass really changed (a stopword dropped, case
\* lowered) and that left something to normalize again
Wit_C5_Idempotent ==
    /\ nPc = "twice"
    /\ IsStr(nIn)
    /\ nOut # <<>>
    /\ nOut # nIn.s
    /\ \E r \in LetterRuns(nIn.s) : Lower(r) \in STOP_WORDS

\* C9: the output of preprocess_text is a CleanedText, and it is empty when the
\* input is empty, not a string, or made of stopwords and non-letters only.
Thm_C9_CleanedText ==
    NormApplied =>
        /\ IsCleanedText(nOut)
        /\ (~IsStr(nIn) \/ nIn.s = <<>> \/ OnlyStopwordsAndNonLetters(nIn.s))
               => nOut = <<>>

\* an input with an uppercase stopword, a non-letter and a kept word
Wit_C9_CleanedText ==
    /\ nPc = "once"
    /\ IsStr(nIn)
    /\ <<"T","h","e">> \in LetterRuns(nIn.s)
    /\ \E i \in 1..Len(nIn.s) : ~IsAsciiLetter(nIn.s[i]) /\ ~IsSpace(nIn.s[i])
    /\ nOut = <<"x">>

\* the input passes the gateway's length validation
AtThreshold(v) == validate_input_text(v, MIN_LENGTH)

HasAlphabeticContent(s) == \E i \in 1..Len(s) : IsAsciiLetter(s[i])

HasSurvivingWord(s) ==
    /\ ~Contains(Lower(s), <<"h","t","t","p">>)
    /\ ~Contains(Lower(s), <<"w","w","w">>)
    /\ ~Contains(s, <<"<">>)
    /\ \E r \in LetterRuns(s) : Lower(r) \notin STOP_WORDS

ExtractReturned == xPc \in {"returned", "raised", "failed", "extracted"}

\* the fetch or the parse went wrong
FetchFailed(env) ==
    env.get # "response" \/ env.status # HTTP_OK \/ env.parse # "ok"

\* "<title> <body>", None read as the empty string
TitleAndBody(env) ==
    (IF env.title.kind = "str" THEN env.title.s ELSE <<>>)
        \o <<" ">> \o
    (IF env.text.kind = "str" THEN env.text.s ELSE <<>>)

\* C4: extract_text_from_url never raises; it returns the empty string on a
\* non-string or empty url, a non-200 status, a network error, a timeout or a
\* parse exception; and every non-empty string it returns is the trimmed
\* "<title> <body>" text, at least 50 characters long.
Thm_C4_ExtractorTotal ==
    ExtractReturned =>
        /\ xRes.raised = ""
        /\ xPc # "raised"
        /\ (~IsStr(xUrl) \/ xUrl.s = <<>> \/ FetchFailed(xNet)) => xRes.value = <<>>
        /\ xRes.value # <<>> =>
              /\ xRes.value = Strip(TitleAndBody(xNet))
              /\ Len(xRes.value) >= MIN_EXTRACTED

\* an article whose title and body had to be trimmed was extracted
Wit_C4_Extracted ==
    /\ xPc = "extracted"
    /\ xRes.value # TitleAndBody(xNet)
    /\ Len(xRes.value) = MIN_EXTRACTED

(***************************************************************************)
(* Properties of the /predict handler.                                     *)
(***************************************************************************)
UrlGiven   == Strip(request.url) # <<>>
TextGiven  == Strip(request.text) # <<>>
Selected   == pc \notin {"rest", "start", "select"}
Answered   == pc = "done"

ClassifierCalls == {"vectorizer.transform", "model.predict", "model.predict_proba"}
ClassifierInvoked == \E i \in 1..Len(calls) : calls[i] \in ClassifierCalls

\* C1: when the url is non-empty after trimming the url path is taken whatever
\* the text holds: the raw text is the extractor's result, a success reports
\* input_source "url", and an empty extraction ends the request with HTTP 400
\* (extraction failed) without falling back to the text.
Thm_C1_UrlPrecedence ==
    (UrlGiven /\ Selected) =>
        LET ex == extract_text_from_url(Str(Strip(request.url)), outcome).value
        IN  /\ calls # <<>> /\ Head(calls) = "extract_text_from_url"
            /\ extracted_text = ex
            /\ ex = <<>> =>
                  /\ Answered
                  /\ responses = <<HTTPException(DETAIL_EXTRACTION)>>
                  /\ raw_text = <<>> /\ source = ""
                  /\ ~ClassifierInvoked
            /\ ex # <<>> =>
                  /\ raw_text = ex /\ source = "url"
                  /\ (Answered /\ responses[1].status_code = HTTP_OK) =>
                        /\ responses[1].input_source = "url"
                        /\ responses[1].text_length = Len(ex)

\* a request carrying a usable text and a url was answered from the url
Wit_C1_UrlPrecedence ==
    /\ Answered
    /\ UrlGiven
    /\ Len(Strip(request.text)) >= MIN_LENGTH
    /\ preprocess_text(Str(request.text)) # <<>>
    /\ responses[1].status_code = HTTP_OK
    /\ responses[1].input_source = "url"
    /\ raw_text # Strip(request.text)

\* C2: when text and url are both empty or whitespace-only the request fails with
\* HTTP 400 (no input provided) and neither the extractor, the vectorizer nor the
\* classifier is invoked.
Thm_C2_NoInput ==
    (~UrlGiven /\ ~TextGiven /\ pc # "rest") =>
        /\ calls = <<>>
        /\ pc \in {"start", "select", "done"}
        /\ IF Answered THEN responses = <<HTTPException(DETAIL_NO_INPUT)>>
           ELSE responses = <<>>

\* a request whose two fields are whitespace was refused
Wit_C2_NoInput ==
    /\ Answered
    /\ ~UrlGiven /\ ~TextGiven
    /\ request.text # <<>> /\ request.url # <<>>

\* C3: the vectorizer and the classifier run only after selection, length
\* validation and normalization succeeded; every failure ends the request with
\* one HTTP 400 response, without a retry and without a classifier invocation.
Thm_C3_ClassifierLast ==
    /\ ClassifierInvoked =>
          /\ source \in {"url", "text"}
          /\ Len(Strip(raw_text)) >= MIN_LENGTH
          /\ cleaned_text # <<>>
          /\ IsCleanedText(cleaned_text)
    /\ Len(responses) <= 1
    /\ responses # <<>> <=> Answered
    /\ \A i, j \in 1..Len(calls) : calls[i] = calls[j] => i = j
    /\ \A i \in 2..Len(calls) : calls[i] # "extract_text_from_url"
    /\ Answered =>
          /\ responses[1].status_code \in {HTTP_OK, HTTP_BAD_REQUEST}
          /\ responses[1].status_code = HTTP_OK <=> ClassifierInvoked
    /\ (UrlGiven /\ Selected /\ FetchFailed(outcome)) =>
          /\ responses = <<HTTPException(DETAIL_EXTRACTION)>>
          /\ calls = <<"extract_text_from_url">>

\* a fetch answered with a status other than 200 ended the request
Wit_C3_FetchRefused ==
    /\ Answered
    /\ UrlGiven
    /\ outcome.status = 404
    /\ responses = <<HTTPException(DETAIL_EXTRACTION)>>
    /\ ~ClassifierInvoked

\* C6: the label is a total function of the predicted class: 0 gives "Fake News",
\* 1 gives "Real News", any other code gives its decimal form, and the request
\* succeeds in each case.
Thm_C6_LabelMapping ==
    (Answered /\ ClassifierInvoked) =>
        /\ Len(responses) = 1
        /\ responses[1].status_code = HTTP_OK
        /\ responses[1].prediction =
              CASE prediction = 0 -> "Fake News"
                [] prediction = 1 -> "Real News"
                [] OTHER -> ToString(prediction)

\* an unmapped class code went through as its string form
Wit_C6_Passthrough ==
    /\ Answered
    /\ prediction < 0
    /\ responses[1].status_code = HTTP_OK
    /\ responses[1].prediction = "-1"

\* where the validator acts, validate_input_text(t, n) holds exactly for a
\* non-empty string t whose trimmed length is at least n: for the texts of the
\* request, the non-strings and every n explored
ValidatorExact ==
    pc = "validate" =>
        \A t \in {Str(request.text), Str(raw_text), PyNone, PyInt} :
            \A n \in 0..(MIN_LENGTH + MaxExtra) :
                validate_input_text(t, n)
                    <=> (t.kind = "str" /\ t.s # <<>> /\ Len(Strip(t.s)) >= n)

\* C8 as stated: every request without a url whose trimmed text is shorter than
\* the minimum fails with HTTP 400 (too short), and validate_input_text is exact.
Orig_C8_TooShort ==
    /\ (Answered /\ ~UrlGiven /\ Len(Strip(request.text)) < MIN_LENGTH) =>
          responses = <<HTTPException(DETAIL_TOO_SHORT)>>
    /\ ValidatorExact

\* C8 amended: every request without a url whose trimmed text is non-empty and
\* shorter than the minimum fails with HTTP 400 (too short); an empty trimmed
\* text is refused as "no input provided" instead; validate_input_text is exact.
Thm_C8_TooShort ==
    /\ (Answered /\ ~UrlGiven /\ TextGiven /\ Len(Strip(request.text)) < MIN_LENGTH) =>
          /\ responses = <<HTTPException(DETAIL_TOO_SHORT)>>
          /\ calls = <<>>
    /\ (Answered /\ ~UrlGiven /\ ~TextGiven) =>
          responses = <<HTTPException(DETAIL_NO_INPUT)>>
    /\ ValidatorExact

\* a text long enough only with its surrounding whitespace was refused
Wit_C8_TooShort ==
    /\ Answered
    /\ ~UrlGiven
    /\ Len(request.text) >= MIN_LENGTH
    /\ Len(Strip(request.text)) = MIN_LENGTH - 1
    /\ responses = <<HTTPException(DETAIL_TOO_SHORT)>>

\* C10: on the url path the length validation never rejects: what the extractor
\* returns is empty or at least 50 characters long trimmed, so the request ends
\* with a success, "extraction failed" or "empty after cleaning", never "too short".
Thm_C10_UrlNeverTooShort ==
    (UrlGiven /\ Selected) =>
        /\ extracted_text # <<>> =>
              /\ Len(Strip(extracted_text)) >= MIN_EXTRACTED
              /\ Len(Strip(extracted_text)) >= MIN_LENGTH
        /\ \A i \in 1..Len(responses) :
              responses[i].detail \in {"success", DETAIL_EXTRACTION, DETAIL_EMPTY}

\* an extracted article of exactly the minimum length passed validation and was
\* then refused as empty after cleaning
Wit_C10_UrlEmptyAfterCleaning ==
    /\ Answered
    /\ UrlGiven
    /\ Len(extracted_text) = MIN_EXTRACTED
    /\ responses = <<HTTPException(DETAIL_EMPTY)>>

====
